---- MODULE Spec2Model ----
\* Vocabulary, tokenizer, greedy decoder and trainer of the math problem
\* assistant notebook (src/unnamed/part_000), as a state machine.
EXTENDS Integers, Sequences, FiniteSets, TLC

\* ------------------------------------------------------------------ bounds
\* longest sentence, counted in whitespace-separated words
MaxWords == 2

\* ------------------------------------------------------------- characters
\* A string is a sequence of one-character strings; a sentence is a string
\* that may hold spaces, a word is a string without spaces.
START_OF_SEQUENCE == <<"<", "S", "O", "S", ">">>
END_OF_SEQUENCE == <<"<", "E", "O", "S", ">">>
PADDING_SEQUENCE == <<"<", "P", "A", "D", ">">>

\* str.lower() on the letters the model uses; every other character is kept
UpperToLower ==
    ("A" :> "a") @@ ("D" :> "d") @@ ("E" :> "e") @@ ("O" :> "o")
    @@ ("P" :> "p") @@ ("S" :> "s")

LowerChar(c) == IF c \in DOMAIN UpperToLower THEN UpperToLower[c] ELSE c

Lower(s) == [i \in 1..Len(s) |-> LowerChar(s[i])]

IsSpace(c) == c = " "

\* str.split(): the maximal runs of non-whitespace characters, in order
RECURSIVE SplitFrom(_, _, _, _)
SplitFrom(s, i, cur, acc) ==
    IF i > Len(s)
    THEN IF cur = <<>> THEN acc ELSE Append(acc, cur)
    ELSE IF IsSpace(s[i])
         THEN SplitFrom(s, i + 1, <<>>, IF cur = <<>> THEN acc ELSE Append(acc, cur))
         ELSE SplitFrom(s, i + 1, Append(cur, s[i]), acc)

Split(s) == SplitFrom(s, 1, <<>>, <<>>)

\* ----------------------------------------------------------------- inputs
\* the words sentences are written with: the three control strings as
\* literal text, and one word in lower and in upper case
RawWords == {START_OF_SEQUENCE, END_OF_SEQUENCE, PADDING_SEQUENCE, <<"a">>, <<"A">>}

RECURSIVE Join(_)
Join(ws) ==
    IF ws = <<>> THEN <<>>
    ELSE IF Len(ws) = 1 THEN ws[1]
    ELSE ws[1] \o <<" ">> \o Join(Tail(ws))

WordLists == UNION {[1..n -> RawWords] : n \in 0..MaxWords}

\* sentences: words joined by one space, and the one-word sentences with
\* leading and trailing whitespace as well
Sentences ==
    {Join(ws) : ws \in WordLists}
    \cup {<<" ">> \o w \o <<" ", " ">> : w \in RawWords}

\* ------------------------------------------------------------- vocabulary
Baseline == (START_OF_SEQUENCE :> 0) @@ (END_OF_SEQUENCE :> 1) @@ (PADDING_SEQUENCE :> 2)

len(d) == Cardinality(DOMAIN d)

\* {v: k for k, v in word_to_index.items()}: later items overwrite earlier ones;
\* with equal values the surviving key is one of them
Inverse(d) ==
    [v \in {d[k] : k \in DOMAIN d} |-> CHOOSE k \in DOMAIN d : d[k] = v]

\* sentence.lower().split()
LowerSplitTable == [s \in Sentences |-> Split(Lower(s))]

\* sentence.split(), tabulated like LowerSplitTable
SplitTable == [s \in Sentences |-> Split(s)]

LowerSplit(sentence) == LowerSplitTable[sentence]

\* tokenize with one of three slips: the membership test dropped ("always"),
\* len(word_to_index) - 1 as the new id ("offbyone"), tokens.append indented
\* into the if ("inside")
RECURSIVE SlipTokenizeWords(_, _, _, _, _)
SlipTokenizeWords(ws, i, tokens, d, slip) ==
    IF i > Len(ws) THEN [tokens |-> tokens, word_to_index |-> d]
    ELSE LET word == ws[i]
             isNew == word \notin DOMAIN d
             id == IF slip = "offbyone" THEN len(d) - 1 ELSE len(d)
             d2 == IF isNew \/ slip = "always"
                   THEN [w \in DOMAIN d \cup {word} |-> IF w = word THEN id ELSE d[w]]
                   ELSE d
             t2 == IF slip = "inside" /\ ~isNew THEN tokens ELSE Append(tokens, d2[word])
         IN SlipTokenizeWords(ws, i + 1, t2, d2, slip)

tokenizeAlwaysInsert(sentence, d) == SlipTokenizeWords(LowerSplit(sentence), 1, <<>>, d, "always")

tokenizeOffByOne(sentence, d) == SlipTokenizeWords(LowerSplit(sentence), 1, <<>>, d, "offbyone")

tokenizeAppendInsideIf(sentence, d) == SlipTokenizeWords(LowerSplit(sentence), 1, <<>>, d, "inside")

\* lines 576-581: the loop over the words, from word i on
RECURSIVE TokenizeWords(_, _, _, _)
TokenizeWords(ws, i, tokens, d) ==
    IF i > Len(ws) THEN [tokens |-> tokens, word_to_index |-> d]
    ELSE LET word == ws[i]
             d2 == IF word \notin DOMAIN d THEN d @@ (word :> len(d)) ELSE d
         IN TokenizeWords(ws, i + 1, Append(tokens, d2[word]), d2)

\* tokenize that splits without lowering
tokenizeNoLower(sentence, d) == TokenizeWords(Split(sentence), 1, <<>>, d)

\* tokenize(sentence, word_to_index): the returned tokens and the mutated dict
tokenize(sentence, d) == TokenizeWords(LowerSplit(sentence), 1, <<>>, d)

\* ------------------------------------------------------------------ state
VARIABLES
    word_to_index,   \* dict word -> id (line 572), mutated by tokenize
    index_to_word,   \* dict id -> word, the snapshot built at line 624
    built,           \* whether line 624 has run on this vocabulary
    op,              \* the operation that ran last
    sentence,        \* its sentence argument
    tokens,          \* the ids it computed for the sentence's words
    target,          \* the target sequence it built
    raised,          \* the exception it ended with, "none" when it returned
    \* test (461-514) and generate_predictions (746-774)
    pc,                  \* "idle", "decoding" (inside the for loop) or "done"
    max_target_length,   \* the argument of the call
    input_tokens,
    decoder_input,
    output_sequence,
    attention_matrices,  \* test only: the loop steps whose weights were saved
    encoder_calls,       \* forward passes of the encoder in this call
    decoder_calls,       \* forward passes of the decoder in this call
    fed,                 \* the decoder_input of every decoder call, in order
    predictions,         \* the predicted_token of every decoder call, in order
    result,              \* the returned list of words
    \* train (329-391)
    dataloader,          \* the batches of target rows, in the order yielded
    num_epochs,
    train_pc,            \* "idle", "batches", "timesteps", "backward", "done" or "raised"
    epoch,
    batch_index,         \* batches of this epoch already fetched
    target_seq,          \* the rows of the current batch
    target_lengths,
    batch_max_target_length,   \* train's local max_target_length
    t,                   \* timesteps of this batch already run
    teacher_input,       \* train's local decoder_input, one id per example
    loss,                \* the int 0 or the accumulated tensor
    still_active,        \* the mask of the timestep run last
    example_loss,        \* the per-example cross-entropy of that timestep
    added,               \* what that timestep added to loss
    saved,               \* the parameter files written
    train_raised,
    decoder_hidden,      \* the recurrent state the next decoder call receives
    log,                 \* every call train has made in this run, in order
    \* Attention.forward (117-140)
    exp_scores,          \* exp of the score of each batch element and position
    pad_positions,       \* per batch element, the trailing positions that are padding
    attention_weights,   \* the returned tensor, <<>> before the call
    \* SimpleMathProblemsGenerator (simple-math-problems-generator.ipynb, 48-85)
    num_samples,
    existing_questions_and_answers,
    gen_pc,              \* "idle", "generating" (inside generate_dataset) or "done"
    data,                \* the rows generate_problem has returned to generate_dataset
    num1,
    num2,
    drawn,               \* the value line 63 drew for num2
    operation,
    func_result,         \* generate_problem's local result
    question,
    answer,
    \* objective (858-898)
    objective_pc,        \* "idle", "batches", "timesteps", "backward", "done" or "raised"
    total_loss,
    objective_return     \* the value returned to the tuning harness

vocab_vars == <<word_to_index, index_to_word, built, op, sentence, tokens, target, raised>>

infer_vars == <<pc, max_target_length, input_tokens, decoder_input, output_sequence,
                attention_matrices, encoder_calls, decoder_calls, fed, predictions, result>>

train_vars == <<dataloader, num_epochs, train_pc, epoch, batch_index, target_seq,
                target_lengths, batch_max_target_length, t, teacher_input, loss,
                still_active, example_loss, added, saved, train_raised,
                decoder_hidden, log>>

attention_vars == <<exp_scores, pad_positions, attention_weights>>

generator_vars == <<num_samples, existing_questions_and_answers, gen_pc, data, num1, num2,
                    drawn, operation, func_result, question, answer>>

objective_vars == <<objective_pc, total_loss, objective_return>>

vars == <<vocab_vars, infer_vars, train_vars, attention_vars, generator_vars, objective_vars>>

\* ------------------------------------------------- preprocessing, 572-624
\* line 621: [word_to_index[START_OF_SEQUENCE]] + tokenize(...) + [word_to_index[END_OF_SEQUENCE]];
\* the start id is read before tokenize runs, the end id after it
WrapTarget(s, d) ==
    LET r == tokenize(s, d)
    IN [target |-> <<d[START_OF_SEQUENCE]>> \o r.tokens \o <<r.word_to_index[END_OF_SEQUENCE]>>,
        tokens |-> r.tokens,
        word_to_index |-> r.word_to_index]

\* line 620, one element of input_data
Tokenize(s) ==
    LET r == tokenize(s, word_to_index)
    IN /\ word_to_index' = r.word_to_index
       /\ tokens' = r.tokens
       /\ target' = <<>>
       /\ op' = "tokenize"
       /\ sentence' = s
       /\ raised' = "none"
       /\ UNCHANGED <<index_to_word, built, infer_vars, train_vars, attention_vars, generator_vars, objective_vars>>

\* lines 621-622, one element of target_data
TargetData(s) ==
    LET r == WrapTarget(s, word_to_index)
    IN /\ word_to_index' = r.word_to_index
       /\ tokens' = r.tokens
       /\ target' = r.target
       /\ op' = "target_data"
       /\ sentence' = s
       /\ raised' = "none"
       /\ UNCHANGED <<index_to_word, built, infer_vars, train_vars, attention_vars, generator_vars, objective_vars>>

\* line 624
BuildIndexToWord ==
    /\ index_to_word' = Inverse(word_to_index)
    /\ built' = TRUE
    /\ op' = "index_to_word"
    /\ sentence' = <<>>
    /\ tokens' = <<>>
    /\ target' = <<>>
    /\ raised' = "none"
    /\ UNCHANGED <<word_to_index, infer_vars, train_vars, attention_vars, generator_vars, objective_vars>>

\* ------------------------------- BasicMathWordProblemDataset, lines 264-269
\* [word_to_index[word] for word in sentence.split()]: no lower(), no insertion
Lookup(s, d) ==
    LET ws == SplitTable[s]
    IN IF \A i \in 1..Len(ws) : ws[i] \in DOMAIN d
       THEN [raised |-> "none", tokens |-> [i \in 1..Len(ws) |-> d[ws[i]]], word_to_index |-> d]
       ELSE [raised |-> "KeyError", tokens |-> <<>>, word_to_index |-> d]

\* __init__ with one input and one target sentence
BasicDatasetInit(inp, tgt) ==
    LET a == Lookup(inp, word_to_index)
        b == Lookup(tgt, word_to_index)
        ok == a.raised = "none" /\ b.raised = "none"
    IN /\ op' = "basic_dataset"
       /\ sentence' = tgt
       /\ raised' = IF ok THEN "none" ELSE "KeyError"
       /\ tokens' = IF ok THEN a.tokens ELSE <<>>
       /\ target' = IF ok
                    THEN <<word_to_index[START_OF_SEQUENCE]>> \o b.tokens
                         \o <<word_to_index[END_OF_SEQUENCE]>>
                    ELSE <<>>
       /\ UNCHANGED <<word_to_index, index_to_word, built, infer_vars, train_vars,
                      attention_vars, generator_vars, objective_vars>>

\* input sentences handed to BasicMathWordProblemDataset
BasicInputs == {<<>>, <<"a">>}

InitInferIdle ==
    /\ pc = "idle"
    /\ max_target_length = 0
    /\ input_tokens = <<>>
    /\ decoder_input = 0
    /\ output_sequence = <<>>
    /\ attention_matrices = <<>>
    /\ encoder_calls = 0
    /\ decoder_calls = 0
    /\ fed = <<>>
    /\ predictions = <<>>
    /\ result = <<>>

\* train has not been called
InitTrainIdle ==
    /\ dataloader = <<>>
    /\ num_epochs = 0
    /\ train_pc = "idle"
    /\ epoch = 0
    /\ batch_index = 0
    /\ target_seq = <<>>
    /\ target_lengths = <<>>
    /\ batch_max_target_length = 0
    /\ t = 0
    /\ teacher_input = <<>>
    /\ loss = [kind |-> "unbound", num |-> 0, den |-> 1]
    /\ still_active = <<>>
    /\ example_loss = <<>>
    /\ added = [kind |-> "unbound", num |-> 0, den |-> 1]
    /\ saved = {}
    /\ train_raised = "none"
    /\ decoder_hidden = 0
    /\ log = <<>>

\* Attention.forward has not been called
InitAttentionIdle ==
    /\ exp_scores = <<>>
    /\ pad_positions = <<>>
    /\ attention_weights = <<>>

\* objective has not been called
InitObjectiveIdle ==
    /\ objective_pc = "idle"
    /\ total_loss = [kind |-> "unbound", num |-> 0, den |-> 1]
    /\ objective_return = [kind |-> "unbound", num |-> 0, den |-> 1]

\* no SimpleMathProblemsGenerator has been constructed
InitGeneratorIdle ==
    /\ num_samples = 0
    /\ existing_questions_and_answers = {}
    /\ gen_pc = "idle"
    /\ data = <<>>
    /\ num1 = 0
    /\ num2 = 0
    /\ drawn = 0
    /\ operation = "none"
    /\ func_result = [kind |-> "unbound", value |-> 0]
    /\ question = <<>>
    /\ answer = <<>>

\* the state after line 572; index_to_word is read by nothing before line 624
\* rebuilds it, so it starts empty with built = FALSE
InitVocab ==
    /\ InitInferIdle
    /\ InitAttentionIdle
    /\ InitGeneratorIdle
    /\ InitObjectiveIdle
    /\ InitTrainIdle
    /\ word_to_index = Baseline
    /\ index_to_word = <<>>
    /\ built = FALSE
    /\ op = "init"
    /\ sentence = <<>>
    /\ tokens = <<>>
    /\ target = <<>>
    /\ raised = "none"

\* the tokenizer alone: any sequence of tokenize calls (line 620)
NextVocab == \E s \in Sentences : Tokenize(s)

SpecVocab == InitVocab /\ [][NextVocab]_vars

\* tokenize calls and the building of index_to_word, in any order
NextInverse ==
    \/ \E s \in Sentences : Tokenize(s)
    \/ BuildIndexToWord

SpecInverse == InitVocab /\ [][NextInverse]_vars

\* the two ways a target sequence is built
NextTargets ==
    \/ \E s \in Sentences : TargetData(s)
    \/ \E inp \in BasicInputs, tgt \in Sentences : BasicDatasetInit(inp, tgt)

SpecTargets == InitVocab /\ [][NextTargets]_vars

\* ----------------------------------------------------- vocabulary claims
TokenizeOps == {"tokenize", "target_data"}

ControlIds == {Baseline[w] : w \in DOMAIN Baseline}

AllKnown(s, d) == \A i \in 1..Len(LowerSplit(s)) : LowerSplit(s)[i] \in DOMAIN d

\* C1: no tokenize call changes the id of a word already in word_to_index or
\* removes an entry: the vocabulary only grows.
C1_IdsKept ==
    [][\A w \in DOMAIN word_to_index :
          w \in DOMAIN word_to_index' /\ word_to_index'[w] = word_to_index[w]]_vars

\* a call returned the first inserted id while four words had been inserted
C1_Witness ==
    /\ op = "tokenize"
    /\ len(word_to_index) = 7
    /\ tokens = <<3>>

\* C2: from the baseline vocabulary on, word_to_index is injective and its ids
\* are exactly 0 .. len(word_to_index) - 1.
C2_Bijective ==
    /\ \A v, w \in DOMAIN word_to_index : word_to_index[v] = word_to_index[w] => v = w
    /\ {word_to_index[w] : w \in DOMAIN word_to_index} = 0..(len(word_to_index) - 1)

\* one call inserted two words, the second receiving the larger id
C2_Witness ==
    /\ op = "tokenize"
    /\ Len(tokens) = 2
    /\ tokens[2] = tokens[1] + 1
    /\ tokens[2] = len(word_to_index) - 1

\* C4: every id tokenize returns is >= 3, also for a sentence that holds a
\* control string as literal text.
C4_NoControlIds ==
    op \in TokenizeOps => \A i \in 1..Len(tokens) : tokens[i] >= 3

\* tokenize returned ids for a sentence holding a literal control string
C4_Witness ==
    /\ op = "tokenize"
    /\ \E i \in 1..Len(Split(sentence)) : Split(sentence)[i] \in DOMAIN Baseline
    /\ Len(tokens) = Len(Split(sentence))

\* C6: when every lowercased word of the sentence is known, tokenize returns
\* the ids found by lookup and leaves word_to_index as it is; a second call
\* with the same sentence returns the ids of the first and inserts nothing.
C6_KnownWordsPure ==
    [][/\ (op' \in TokenizeOps /\ AllKnown(sentence', word_to_index))
            => /\ word_to_index' = word_to_index
               /\ tokens' = [i \in 1..Len(LowerSplit(sentence')) |->
                               word_to_index[LowerSplit(sentence')[i]]]
       /\ (op' = "tokenize" /\ op = "tokenize" /\ sentence' = sentence)
            => /\ word_to_index' = word_to_index
               /\ tokens' = tokens]_vars

\* a call on a non-empty sentence that inserted nothing: the id inserted last
\* is not among the ids it returned
C6_Witness ==
    /\ op = "tokenize"
    /\ tokens # <<>>
    /\ \A i \in 1..Len(tokens) : tokens[i] < len(word_to_index) - 1

\* C3: once index_to_word is built, index_to_word[word_to_index[w]] = w for
\* every word of word_to_index, the words tokenize inserts afterwards included.
C3_RoundTrip ==
    built => \A w \in DOMAIN word_to_index :
                /\ word_to_index[w] \in DOMAIN index_to_word
                /\ index_to_word[word_to_index[w]] = w

\* C5: every target sequence built starts with 0, ends with 1, has at least
\* two elements and holds no control id at an interior position.
C5_TargetWrapped ==
    (op \in {"target_data", "basic_dataset"} /\ raised = "none")
        => /\ Len(target) >= 2
           /\ target[1] = 0
           /\ target[Len(target)] = 1
           /\ \A i \in 2..(Len(target) - 1) : target[i] \notin ControlIds

\* ------------------------------------------------------- greedy decoding
\* longest max_target_length a caller passes
MaxTargetLength == 2

InferOps == {"test", "generate_predictions"}

\* the words preprocessing is run on before inference
CorpusSentences == {s \in Sentences : Len(SplitTable[s]) <= 1}

\* input tokenization that inserts unknown words, as tokenize does
InputTokensGrowing(s, d) ==
    LET r == tokenizeNoLower(s, d)
    IN [raised |-> "none", tokens |-> r.tokens, word_to_index |-> r.word_to_index]

\* lines 467 and 751: [word_to_index[word] for word in input_sentence.split()]
InputTokens(s, d) == Lookup(s, d)

\* one pass of the loop body that appends before it tests for the end token
DecodeIterationAppendFirst(p, out, eos) ==
    [brk |-> p = eos, output_sequence |-> Append(out, p), decoder_input |-> p]

\* lines 486-494 and 767-771, after the decoder returned prediction p
DecodeIteration(p, out, eos) ==
    IF p = eos
    THEN [brk |-> TRUE, output_sequence |-> out, decoder_input |-> p]
    ELSE [brk |-> FALSE, output_sequence |-> Append(out, p), decoder_input |-> p]

\* [index_to_word[token] for token in seq]
ToWords(seq, itw) ==
    IF \A i \in 1..Len(seq) : seq[i] \in DOMAIN itw
    THEN [raised |-> "none", words |-> [i \in 1..Len(seq) |-> itw[seq[i]]]]
    ELSE [raised |-> "KeyError", words |-> <<>>]

\* np.vstack(attention_matrices), line 501: an empty list is a ValueError
Vstack(rows) == IF rows = <<>> THEN "ValueError" ELSE "none"

\* what follows the loop: lines 496-514 of test, line 774 of generate_predictions
AfterLoop(f, in_tokens, out, rows, itw) ==
    LET a == ToWords(in_tokens, itw)
        b == ToWords(out, itw)
    IN IF f = "test"
       THEN IF a.raised # "none" THEN [raised |-> a.raised, result |-> <<>>]
            ELSE IF b.raised # "none" THEN [raised |-> b.raised, result |-> <<>>]
            ELSE IF Vstack(rows) # "none" THEN [raised |-> Vstack(rows), result |-> <<>>]
            ELSE [raised |-> "none", result |-> b.words]
       ELSE IF b.raised # "none" THEN [raised |-> b.raised, result |-> <<>>]
            ELSE [raised |-> "none", result |-> b.words]

\* the call up to the loop: tokenization, the encoder, the decoder's first input
InferStart(f, s, m) ==
    LET r == InputTokens(s, word_to_index)
        end == AfterLoop(f, r.tokens, <<>>, <<>>, index_to_word)
    IN /\ pc = "idle"
       /\ op' = f
       /\ sentence' = s
       /\ max_target_length' = m
       /\ word_to_index' = r.word_to_index
       /\ input_tokens' = r.tokens
       /\ output_sequence' = <<>>
       /\ attention_matrices' = <<>>
       /\ decoder_calls' = 0
       /\ fed' = <<>>
       /\ predictions' = <<>>
       /\ IF r.raised # "none"
          THEN /\ raised' = r.raised
               /\ pc' = "done"
               /\ encoder_calls' = 0
               /\ result' = <<>>
               /\ UNCHANGED decoder_input
          ELSE /\ encoder_calls' = 1
               /\ decoder_input' = r.word_to_index[START_OF_SEQUENCE]
               /\ IF m = 0
                  THEN pc' = "done" /\ raised' = end.raised /\ result' = end.result
                  ELSE pc' = "decoding" /\ raised' = "none" /\ result' = <<>>
       /\ UNCHANGED <<index_to_word, built, tokens, target, train_vars,
                      attention_vars, generator_vars, objective_vars>>

\* one pass of the for loop with the decoder predicting p; the pass that
\* leaves the loop runs the rest of the function as well
DecodeStep(p) ==
    LET it == DecodeIteration(p, output_sequence, word_to_index[END_OF_SEQUENCE])
        rows == IF op = "test" /\ ~it.brk
                THEN Append(attention_matrices, decoder_calls + 1)
                ELSE attention_matrices
        last == it.brk \/ decoder_calls + 1 = max_target_length
        end == AfterLoop(op, input_tokens, it.output_sequence, rows, index_to_word)
    IN /\ pc = "decoding"
       /\ decoder_calls' = decoder_calls + 1
       /\ fed' = Append(fed, decoder_input)
       /\ predictions' = Append(predictions, p)
       /\ output_sequence' = it.output_sequence
       /\ attention_matrices' = rows
       /\ decoder_input' = IF it.brk THEN decoder_input ELSE it.decoder_input
       /\ IF last
          THEN pc' = "done" /\ raised' = end.raised /\ result' = end.result
          ELSE UNCHANGED <<pc, raised, result>>
       /\ UNCHANGED <<word_to_index, index_to_word, built, op, sentence, tokens, target,
                      max_target_length, input_tokens, encoder_calls, train_vars,
                      attention_vars, generator_vars, objective_vars>>

\* inference starts from the vocabulary preprocessing left (lines 620-624)
InitInfer ==
    /\ InitInferIdle
    /\ InitAttentionIdle
    /\ InitGeneratorIdle
    /\ InitObjectiveIdle
    /\ InitTrainIdle
    /\ \E s \in CorpusSentences : word_to_index = tokenize(s, Baseline).word_to_index
    /\ index_to_word = Inverse(word_to_index)
    /\ built = TRUE
    /\ op = "index_to_word"
    /\ sentence = <<>>
    /\ tokens = <<>>
    /\ target = <<>>
    /\ raised = "none"

NextInfer ==
    \/ \E f \in InferOps, s \in Sentences, m \in 0..MaxTargetLength : InferStart(f, s, m)
    \/ \E p \in 0..(len(word_to_index) - 1) : DecodeStep(p)

SpecInfer == InitInfer /\ [][NextInfer]_vars

\* ------------------------------------------------- greedy decoding claims
HasUnknownWord(s, d) == \E i \in 1..Len(Split(s)) : Split(s)[i] \notin DOMAIN d

\* index of the first end token among the predictions, Len + 1 when there is none
FirstEnd(ps) ==
    IF \E i \in 1..Len(ps) : ps[i] = Baseline[END_OF_SEQUENCE]
    THEN CHOOSE i \in 1..Len(ps) :
            /\ ps[i] = Baseline[END_OF_SEQUENCE]
            /\ \A j \in 1..(i - 1) : ps[j] # Baseline[END_OF_SEQUENCE]
    ELSE Len(ps) + 1

\* C7: an input sentence with a word that is no key of word_to_index makes
\* test and generate_predictions end with a lookup error before the encoder
\* or the decoder runs, and both dicts stay as they were.
C7_UnknownWordRaises ==
    [][(pc = "idle" /\ op' \in InferOps /\ HasUnknownWord(sentence', word_to_index))
         => /\ pc' = "done"
            /\ raised' = "KeyError"
            /\ encoder_calls' = 0
            /\ decoder_calls' = 0
            /\ result' = <<>>
            /\ word_to_index' = word_to_index
            /\ index_to_word' = index_to_word]_vars

\* test ended in the lookup error on a two-word sentence
C7_Witness ==
    /\ op = "test"
    /\ pc = "done"
    /\ raised = "KeyError"
    /\ HasUnknownWord(sentence, word_to_index)
    /\ Len(Split(sentence)) = 2

\* C8: once the input is tokenized, the decoder is invoked at most
\* max_target_length times and the call then returns at most
\* max_target_length tokens.
C8_ReturnsWithinBound ==
    op \in InferOps
        => /\ decoder_calls <= max_target_length
           /\ (pc = "done" /\ encoder_calls = 1)
                => (raised = "none" /\ Len(result) <= max_target_length)

\* C9: the returned sequence is the predictions made before the first end
\* token, or all max_target_length of them when none is the end token; it
\* holds no end token, and every prediction was the next decoder input.
C9_NoEndToken ==
    (op \in InferOps /\ pc = "done" /\ raised = "none")
        => LET n == FirstEnd(predictions)
               kept == SubSeq(predictions, 1, n - 1)
           IN /\ result = [i \in 1..Len(kept) |-> index_to_word[kept[i]]]
              /\ \A i \in 1..Len(result) : result[i] # END_OF_SEQUENCE
              /\ IF n > Len(predictions)
                 THEN Len(predictions) = max_target_length
                 ELSE n = Len(predictions)
              /\ Len(fed) = Len(predictions)
              /\ \A i \in 1..Len(fed) :
                    fed[i] = IF i = 1 THEN Baseline[START_OF_SEQUENCE] ELSE predictions[i - 1]

\* test returned one word after the decoder predicted it and then the end token
C9_Witness ==
    /\ op = "test"
    /\ pc = "done"
    /\ raised = "none"
    /\ Len(predictions) = 2
    /\ predictions[2] = Baseline[END_OF_SEQUENCE]
    /\ Len(result) = 1

\* ------------------------------------------------------------------ train
\* most words of a target sentence of the training corpus
MaxTargetWords == 1
\* most rows of the training corpus
MaxExamples == 3
\* batch_size of the DataLoader (64 at line 660), scaled down
BatchSize == 2
\* largest num_epochs passed to train
MaxEpochs == 2
\* the per-example cross-entropy values the decoder's output can produce
LossValues == {1, 2}

\* the target sentences of the corpus
TrainSentences == {Join([i \in 1..n |-> <<"A">>]) : n \in 0..MaxTargetWords}

Corpora == UNION {[1..n -> TrainSentences] : n \in 1..MaxExamples}

\* lines 621-622 over the whole list: target_data and the vocabulary it leaves
RECURSIVE TargetDataFrom(_, _, _, _)
TargetDataFrom(ss, i, rows, d) ==
    IF i > Len(ss) THEN [target_data |-> rows, word_to_index |-> d]
    ELSE LET r == WrapTarget(ss[i], d)
         IN TargetDataFrom(ss, i + 1, Append(rows, r.target), r.word_to_index)

\* one more than the largest element
MaxPlusOne(S) == 1 + (CHOOSE x \in S : \A y \in S : y <= x)

Max(S) == CHOOSE x \in S : \A y \in S : y <= x

\* pad_sequence(..., batch_first=True, padding_value=pad), line 646
PadSequence(rows, pad) ==
    LET width == Max({Len(rows[i]) : i \in 1..Len(rows)})
    IN [i \in 1..Len(rows) |->
          [j \in 1..width |-> IF j <= Len(rows[i]) THEN rows[i][j] ELSE pad]]

\* DataLoader(dataset, batch_size=size, shuffle=False), line 660
Batches(rows, size) ==
    LET n == (Len(rows) + size - 1) \div size
    IN [b \in 1..n |->
          SubSeq(rows, (b - 1) * size + 1,
                 IF b * size <= Len(rows) THEN b * size ELSE Len(rows))]

\* ------------------------------------------------------ rational numbers
RECURSIVE GCD(_, _)
GCD(a, b) == IF b = 0 THEN a ELSE GCD(b, a % b)

NaN == [kind |-> "nan", num |-> 0, den |-> 1]

Rat(n, d) ==
    IF d = 0 THEN NaN
    ELSE [kind |-> "tensor", num |-> n \div GCD(n, d), den |-> d \div GCD(n, d)]

RatAdd(a, b) ==
    IF a.kind = "nan" \/ b.kind = "nan" THEN NaN
    ELSE Rat(a.num * b.den + b.num * a.den, a.den * b.den)

RECURSIVE SumOver(_, _)
SumOver(f, S) ==
    IF S = {} THEN 0
    ELSE LET i == CHOOSE x \in S : TRUE IN f[i] + SumOver(f, S \ {i})

\* ---------------------------------------------------------- the loss step
\* CrossEntropyLoss without ignore_index: the mean over the whole batch
criterionNoIgnore(l, col, pad) == Rat(SumOver(l, 1..Len(col)), Len(col))

\* criterion = nn.CrossEntropyLoss(ignore_index=pad), line 685: the mean of
\* the per-example losses l over the examples whose target is not pad
criterion(l, col, pad) ==
    LET kept == {i \in 1..Len(col) : col[i] # pad}
    IN Rat(SumOver(l, kept), Cardinality(kept))

\* line 375: (criterion(...) * still_active.float()).sum() / still_active.sum()
MaskedStepLoss(crit, active) ==
    LET n == Cardinality({i \in 1..Len(active) : active[i]})
    IN IF crit.kind = "nan" THEN NaN ELSE Rat(crit.num * n, crit.den * n)

\* the column after the one asked for, where the rows have one
ColumnShifted(rows, k) ==
    [i \in 1..Len(rows) |-> IF k + 2 <= Len(rows[i]) THEN rows[i][k + 2] ELSE rows[i][k + 1]]

\* target_seq[:, t] with t counted from 0
Column(rows, k) == [i \in 1..Len(rows) |-> rows[i][k + 1]]

\* line 357: (target_seq != pad).sum(dim=1)
TargetLengths(rows, pad) ==
    [i \in 1..Len(rows) |-> Cardinality({j \in 1..Len(rows[i]) : rows[i][j] # pad})]

\* lines 603-660 run over one of the corpora C: the vocabulary, the globally
\* padded targets and the data loader, before train or objective is called
InitTrainOver(C) ==
    /\ InitInferIdle
    /\ InitAttentionIdle
    /\ InitGeneratorIdle
    /\ InitObjectiveIdle
    /\ \E ss \in C :
          LET r == TargetDataFrom(ss, 1, <<>>, Baseline)
          IN /\ word_to_index = r.word_to_index
             /\ dataloader = Batches(PadSequence(r.target_data, r.word_to_index[PADDING_SEQUENCE]),
                                     BatchSize)
    /\ index_to_word = Inverse(word_to_index)
    /\ built = TRUE
    /\ op = "index_to_word"
    /\ sentence = <<>>
    /\ tokens = <<>>
    /\ target = <<>>
    /\ raised = "none"
    /\ num_epochs = 0
    /\ train_pc = "idle"
    /\ epoch = 0
    /\ batch_index = 0
    /\ target_seq = <<>>
    /\ target_lengths = <<>>
    /\ batch_max_target_length = 0
    /\ t = 0
    /\ teacher_input = <<>>
    /\ loss = [kind |-> "unbound", num |-> 0, den |-> 1]
    /\ still_active = <<>>
    /\ example_loss = <<>>
    /\ added = [kind |-> "unbound", num |-> 0, den |-> 1]
    /\ saved = {}
    /\ train_raised = "none"
    /\ decoder_hidden = 0
    /\ log = <<>>

InitTrain == InitTrainOver(Corpora)

\* lines 389-391
SaveModels == {"encoder", "decoder"}

\* a loop that stops after its first pass
InRangeOnce(e, n) == e < 1

\* line 338: whether range(num_epochs) yields e
InRange(e, n) == e < n

\* an entry of log: a call made while the b-th batch the data loader yielded
\* in this epoch was being processed (b = 0 outside the batch loop)
Call(name, b) ==
    [name |-> name, batch |-> b, t |-> 0, hidden |-> 0, input |-> <<>>, target |-> <<>>]

\* lines 344-349: the calls that open a batch
BatchOpening(b) ==
    <<Call("encoder_optimizer.zero_grad", b), Call("decoder_optimizer.zero_grad", b),
      Call("encoder", b)>>

\* the two optimizer steps swapped
BatchClosingDecoderFirst(b) ==
    <<Call("loss.backward", b), Call("decoder_optimizer.step", b),
      Call("encoder_optimizer.step", b)>>

\* lines 381-383: the calls that close a batch
BatchClosing(b) ==
    <<Call("loss.backward", b), Call("encoder_optimizer.step", b),
      Call("decoder_optimizer.step", b)>>

\* lines 390-391
SaveCalls == <<Call("torch.save encoder", 0), Call("torch.save decoder", 0)>>

\* lines 370-375: the decoder call of timestep k, with the recurrent state and
\* the input it receives and the target column its output is scored against
DecoderCall(b, k, h, input, col) ==
    [name |-> "decoder", batch |-> b, t |-> k, hidden |-> h, input |-> input, target |-> col]

\* train(num_epochs, ...) entered; range(0) leaves only the two saves
TrainStart(n) ==
    /\ train_pc = "idle"
    /\ op' = "train"
    /\ num_epochs' = n
    /\ epoch' = 0
    /\ batch_index' = 0
    /\ IF ~InRange(0, n)
       THEN train_pc' = "done" /\ saved' = SaveModels /\ log' = SaveCalls
       ELSE train_pc' = "batches" /\ saved' = {} /\ log' = <<>>
    /\ UNCHANGED <<word_to_index, index_to_word, built, sentence, tokens, target, raised,
                   infer_vars,
                   attention_vars, generator_vars, objective_vars, dataloader, target_seq, target_lengths,
                   batch_max_target_length, t, teacher_input, loss, still_active,
                   example_loss, added, train_raised, decoder_hidden>>

\* lines 339-360: the next batch up to the timestep loop
BatchStart ==
    LET rows == dataloader[batch_index + 1]
        lengths == TargetLengths(rows, word_to_index[PADDING_SEQUENCE])
        longest == Max({lengths[i] : i \in 1..Len(rows)})
    IN /\ train_pc = "batches"
       /\ batch_index < Len(dataloader)
       /\ batch_index' = batch_index + 1
       /\ target_seq' = rows
       /\ teacher_input' = [i \in 1..Len(rows) |-> word_to_index[START_OF_SEQUENCE]]
       /\ target_lengths' = lengths
       /\ batch_max_target_length' = longest
       /\ loss' = [kind |-> "int", num |-> 0, den |-> 1]
       /\ t' = 0
       /\ train_pc' = IF longest = 0 THEN "backward" ELSE "timesteps"
       /\ log' = log \o BatchOpening(batch_index + 1)
       \* line 354: the state the encoder call, the last of the opening, returned
       /\ decoder_hidden' = Len(log) + Len(BatchOpening(batch_index + 1))
       \* no timestep of this batch has run
       /\ example_loss' = <<>>
       /\ added' = [kind |-> "unbound", num |-> 0, den |-> 1]
       /\ UNCHANGED <<vocab_vars, infer_vars, attention_vars, generator_vars, objective_vars, dataloader,
                      num_epochs, epoch, still_active, saved, train_raised>>

\* lines 363-378: one pass of the timestep loop, the decoder's output giving
\* example i the cross-entropy l[i] against target_seq[i, t]
TimeStep(l) ==
    LET active == [i \in 1..Len(target_seq) |-> t < target_lengths[i]]
        col == Column(target_seq, t)
        crit == criterion(l, col, word_to_index[PADDING_SEQUENCE])
        step == MaskedStepLoss(crit, active)
    IN /\ train_pc = "timesteps"
       /\ t < batch_max_target_length
       /\ still_active' = active
       /\ IF \A i \in 1..Len(active) : ~active[i]
          THEN /\ train_pc' = "backward"
               /\ log' = Append(log, Call("break", batch_index))
               /\ UNCHANGED <<t, loss, example_loss, added, teacher_input, decoder_hidden>>
          ELSE /\ log' = Append(log, DecoderCall(batch_index, t, decoder_hidden, teacher_input, col))
               \* the state this decoder call returned
               /\ decoder_hidden' = Len(log) + 1
               /\ example_loss' = l
               /\ added' = step
               /\ loss' = IF loss.kind = "int" THEN step ELSE RatAdd(loss, step)
               /\ teacher_input' = col
               /\ t' = t + 1
               /\ train_pc' = IF t + 1 = batch_max_target_length THEN "backward" ELSE "timesteps"
       /\ UNCHANGED <<vocab_vars, infer_vars,
                      attention_vars, generator_vars, objective_vars, dataloader, num_epochs, epoch, batch_index,
                      target_seq, target_lengths, batch_max_target_length, saved, train_raised>>

\* lines 381-383: loss.backward() and the two optimizer steps; the int 0 has
\* no backward()
Backward ==
    /\ train_pc = "backward"
    /\ IF loss.kind = "int"
       THEN train_pc' = "raised" /\ train_raised' = "AttributeError" /\ UNCHANGED log
       ELSE /\ train_pc' = "batches"
            /\ log' = log \o BatchClosing(batch_index)
            /\ UNCHANGED train_raised
    /\ UNCHANGED <<vocab_vars, infer_vars,
                   attention_vars, generator_vars, objective_vars, dataloader, num_epochs, epoch, batch_index,
                   target_seq, target_lengths, batch_max_target_length, t, teacher_input,
                   loss, still_active, example_loss, added, saved, decoder_hidden>>

\* lines 385-391: the end of an epoch, and after the last one the two saves
EpochEnd ==
    /\ train_pc = "batches"
    /\ batch_index = Len(dataloader)
    /\ epoch' = epoch + 1
    /\ batch_index' = 0
    /\ IF ~InRange(epoch + 1, num_epochs)
       THEN train_pc' = "done" /\ saved' = SaveModels /\ log' = log \o SaveCalls
       ELSE UNCHANGED <<train_pc, saved, log>>
    /\ UNCHANGED <<vocab_vars, infer_vars,
                   attention_vars, generator_vars, objective_vars, dataloader, num_epochs, target_seq,
                   target_lengths, batch_max_target_length, t, teacher_input, loss,
                   still_active, example_loss, added, train_raised, decoder_hidden>>

NextTrain ==
    \/ \E n \in 0..MaxEpochs : TrainStart(n)
    \/ BatchStart
    \/ \E l \in [1..Len(target_seq) -> LossValues] : TimeStep(l)
    \/ Backward
    \/ EpochEnd

SpecTrain == InitTrain /\ [][NextTrain]_vars

\* train reads the global dataloader, whatever data set it was built over:
\* here some examples of the corpus have a target of no tokens at all, a row
\* of pad alone once line 646 has padded it
InitTrainAny ==
    /\ InitInferIdle
    /\ InitAttentionIdle
    /\ InitGeneratorIdle
    /\ InitObjectiveIdle
    /\ \E ss \in Corpora :
          \E empty \in SUBSET (1..Len(ss)) :
             LET r == TargetDataFrom(ss, 1, <<>>, Baseline)
                 rows == [i \in 1..Len(ss) |->
                            IF i \in empty THEN <<>> ELSE r.target_data[i]]
             IN /\ word_to_index = r.word_to_index
                /\ dataloader = Batches(PadSequence(rows, r.word_to_index[PADDING_SEQUENCE]),
                                        BatchSize)
    /\ index_to_word = Inverse(word_to_index)
    /\ built = TRUE
    /\ op = "index_to_word"
    /\ sentence = <<>>
    /\ tokens = <<>>
    /\ target = <<>>
    /\ raised = "none"
    /\ num_epochs = 0
    /\ train_pc = "idle"
    /\ epoch = 0
    /\ batch_index = 0
    /\ target_seq = <<>>
    /\ target_lengths = <<>>
    /\ batch_max_target_length = 0
    /\ t = 0
    /\ teacher_input = <<>>
    /\ loss = [kind |-> "unbound", num |-> 0, den |-> 1]
    /\ still_active = <<>>
    /\ example_loss = <<>>
    /\ added = [kind |-> "unbound", num |-> 0, den |-> 1]
    /\ saved = {}
    /\ train_raised = "none"
    /\ decoder_hidden = 0
    /\ log = <<>>

\* No branch of train reads the loss: which calls it makes and when it saves
\* depend on the targets alone. Here every example's cross-entropy is 1.
NextTrainAny ==
    \/ \E n \in 0..MaxEpochs : TrainStart(n)
    \/ BatchStart
    \/ TimeStep([i \in 1..Len(target_seq) |-> 1])
    \/ Backward
    \/ EpochEnd

SpecTrainAny == InitTrainAny /\ [][NextTrainAny]_vars

\* ----------------------------------------------------------- train claims
\* the non-pad tokens of a target row
NonPadCount(row) == Cardinality({j \in 1..Len(row) : row[j] # Baseline[PADDING_SEQUENCE]})

\* the examples whose target covers timestep k, counted from 0
ActiveAt(k) == {i \in 1..Len(target_seq) : k < NonPadCount(target_seq[i])}

\* C10: the loss a timestep adds is the mean of the per-example losses over
\* the active examples alone; when every target of the batch has the same
\* length it is the mean over the whole batch.
C10_MaskedMean ==
    (op = "train" /\ t > 0)
        => LET A == ActiveAt(t - 1)
               all == 1..Len(target_seq)
           IN /\ added.kind = "tensor"
              /\ added.num * Cardinality(A) = added.den * SumOver(example_loss, A)
              /\ (\A i, j \in all : NonPadCount(target_seq[i]) = NonPadCount(target_seq[j]))
                    => added.num * Len(target_seq) = added.den * SumOver(example_loss, all)

\* a timestep ran with one example active and one finished, their losses differing
C10_Witness ==
    /\ op = "train"
    /\ t > 0
    /\ \E i \in ActiveAt(t - 1), j \in 1..Len(target_seq) :
          /\ j \notin ActiveAt(t - 1)
          /\ example_loss[i] # example_loss[j]

\* the positions of log that hold a call of the given name
CallsOf(name) == {i \in 1..Len(log) : log[i].name = name}

\* C11: a batch whose longest target has no token (max_target_length = 0, the
\* timestep loop never runs) is a no-op: loss stays 0, nothing is raised and
\* train goes on to the next batch.
C11_DegenerateBatchNoOp ==
    (op = "train" /\ batch_index > 0 /\ batch_max_target_length = 0)
        => /\ train_raised = "none"
           /\ train_pc # "raised"
           /\ loss.kind \in {"int", "tensor"} /\ loss.num = 0

\* how many of the calls at positions S come before position i
Before(S, i) == Cardinality({j \in S : j < i})

\* C12: train writes the encoder file and the decoder file exactly once each,
\* and only after each of the num_epochs epochs has processed every batch of
\* the data loader, in the order the loader yields them; when a batch raises
\* the run ends there and neither file is written.
C12_SavedOnceAtEnd ==
    LET N == Len(dataloader)
        batches == CallsOf("encoder")
        finished == CallsOf("decoder_optimizer.step")
        saves == CallsOf("torch.save encoder") \cup CallsOf("torch.save decoder")
    IN op = "train"
          => /\ \A i \in batches : log[i].batch = (Before(batches, i) % N) + 1
             /\ train_pc = "done"
                   => /\ Cardinality(CallsOf("torch.save encoder")) = 1
                      /\ Cardinality(CallsOf("torch.save decoder")) = 1
                      /\ saved = SaveModels
                      /\ Cardinality(batches) = num_epochs * N
                      /\ Cardinality(finished) = num_epochs * N
                      /\ \A i \in saves, j \in 1..Len(log) : j \notin saves => j < i
             /\ train_pc # "done" => saved = {} /\ saves = {}
             /\ train_raised # "none"
                   => /\ train_pc = "raised"
                      /\ Cardinality(batches) = epoch * N + batch_index
                      /\ log[Len(log)].batch = batch_index

\* two epochs over a data loader of two batches ended with both files written
C12_Witness ==
    /\ op = "train"
    /\ train_pc = "done"
    /\ num_epochs = 2
    /\ Len(dataloader) = 2
    /\ saved = SaveModels

\* the name of the call before position i, "none" at the start of the run
NameBefore(i) == IF i = 1 THEN "none" ELSE log[i - 1].name

\* the decoder calls made in the batch of position i before that position:
\* decoder calls follow one another from the encoder call on
TimestepOf(i) ==
    IF NameBefore(i) = "decoder" THEN log[i - 1].t + 1 ELSE 0

\* C16: each batch runs in one fixed order: both optimizers' gradients are
\* reset, the encoder runs once, the decoder runs one timestep after another,
\* each step receiving the recurrent state the call before it returned (the
\* encoder's at the first step), then loss.backward() once, then the encoder
\* optimizer's step, then the decoder optimizer's; no optimizer step stands
\* between two decoder calls.
C16_BatchOrder ==
    op = "train"
       => /\ \A i \in 1..Len(log) :
                LET name == log[i].name
                    before == NameBefore(i)
                IN /\ name = "encoder_optimizer.zero_grad"
                         => before \in {"none", "decoder_optimizer.step"}
                   /\ name = "decoder_optimizer.zero_grad"
                         => before = "encoder_optimizer.zero_grad"
                   /\ name = "encoder" => before = "decoder_optimizer.zero_grad"
                   /\ name = "decoder"
                         => /\ before \in {"encoder", "decoder"}
                            /\ log[i].hidden = i - 1
                            /\ log[i].t = TimestepOf(i)
                   /\ name = "loss.backward" => before \in {"encoder", "decoder"}
                   /\ name = "encoder_optimizer.step" => before = "loss.backward"
                   /\ name = "decoder_optimizer.step" => before = "encoder_optimizer.step"
                   /\ name \in {"torch.save encoder", "torch.save decoder"}
                         => before \in {"none", "decoder_optimizer.step", "torch.save encoder"}
          /\ Cardinality(CallsOf("loss.backward"))
                = Cardinality(CallsOf("encoder"))
                     - (IF train_pc \in {"timesteps", "backward", "raised"} THEN 1 ELSE 0)
          /\ Cardinality(CallsOf("decoder_optimizer.step")) = Cardinality(CallsOf("loss.backward"))

\* a batch of three timesteps was closed and the next batch opened
C16_Witness ==
    /\ op = "train"
    /\ \E i \in CallsOf("decoder_optimizer.step") :
          /\ i > 5
          /\ \A j \in (i - 5)..(i - 3) : log[j].name = "decoder"
          /\ i < Len(log)
          /\ log[i + 1].name = "encoder_optimizer.zero_grad"

\* C17: the decoder's input at the first timestep is the start id for every
\* example of the batch, its input at a later timestep is the target column
\* of the timestep before, and the output of timestep t is scored against
\* target column t.
C17_TeacherForcing ==
    op = "train"
       => \A i \in CallsOf("decoder") :
             LET rows == dataloader[log[i].batch]
                 k == TimestepOf(i)
             IN /\ log[i].t = k
                /\ Len(log[i].input) = Len(rows)
                /\ Len(log[i].target) = Len(rows)
                /\ \A e \in 1..Len(rows) :
                      /\ log[i].target[e] = rows[e][k + 1]
                      /\ log[i].input[e] = IF k = 0 THEN word_to_index[START_OF_SEQUENCE]
                                            ELSE rows[e][k]

\* the third timestep of a batch of two examples whose targets differ at the
\* timestep before and at this one
C17_Witness ==
    /\ op = "train"
    /\ \E i \in CallsOf("decoder") :
          /\ TimestepOf(i) = 2
          /\ Len(log[i].target) = 2
          /\ log[i].target[1] # log[i].target[2]
          /\ log[i].input[1] # log[i].input[2]

\* the largest count of non-pad tokens among the rows of a batch
LongestTarget(rows) ==
    CHOOSE n \in 0..Len(rows[1]) :
       /\ \E e \in 1..Len(rows) : NonPadCount(rows[e]) = n
       /\ \A e \in 1..Len(rows) : NonPadCount(rows[e]) <= n

\* C20: the break of the timestep loop is never taken: at every timestep that
\* runs at least one example is active, so still_active.sum() is never 0, and
\* the decoder is called exactly max_target_length times in every batch.
C20_BreakNeverTaken ==
    op = "train"
       => /\ CallsOf("break") = {}
          /\ still_active # <<>> => \E e \in 1..Len(still_active) : still_active[e]
          /\ train_pc = "timesteps"
                => /\ t < batch_max_target_length
                   /\ \E e \in 1..Len(target_seq) : t < NonPadCount(target_seq[e])
          /\ train_pc \in {"timesteps", "backward", "raised"}
                => /\ batch_max_target_length = LongestTarget(target_seq)
                   /\ TimestepOf(Len(log) + 1) = t
          /\ train_pc \in {"backward", "raised"} => t = batch_max_target_length
          /\ \A i \in CallsOf("loss.backward") :
                TimestepOf(i) = LongestTarget(dataloader[log[i].batch])

\* a batch was closed in which one example was finished a timestep before the other
C20_Witness ==
    /\ op = "train"
    /\ \E i \in CallsOf("loss.backward") :
          LET rows == dataloader[log[i].batch]
          IN /\ Len(rows) = 2
             /\ NonPadCount(rows[1]) # NonPadCount(rows[2])
             /\ TimestepOf(i) = 3

\* --------------------------------------------- test and generate_predictions
\* C18: test returns what generate_predictions returns on the same sentence,
\* vocabulary, max_target_length and decoder predictions, the empty list
\* included (first prediction the end token, or max_target_length = 0);
\* saving the attention weights changes neither whether nor what it returns.
C18_TestAsGeneratePredictions ==
    (op = "test" /\ pc = "done" /\ encoder_calls = 1)
        => LET g == AfterLoop("generate_predictions", input_tokens, output_sequence,
                              <<>>, index_to_word)
           IN /\ raised = g.raised
              /\ result = g.result

\* C19: test and generate_predictions turn a sentence into the ids tokenize
\* returns for it on the same vocabulary (split on whitespace after
\* lowercasing) whenever the lowercased words are all in the vocabulary,
\* upper-case sentences included.
C19_InferenceTokenization ==
    (op \in InferOps /\ AllKnown(sentence, word_to_index))
        => /\ raised # "KeyError"
           /\ input_tokens = tokenize(sentence, word_to_index).tokens

\* ------------------------------------------------------ objective, 858-898
\* the answers of the training file: each has a word, and they differ in length
ObjectiveSentences == {Join([i \in 1..n |-> <<"A">>]) : n \in 1..MaxTargetWords + 1}

ObjectiveCorpora == UNION {[1..n -> ObjectiveSentences] : n \in 1..MaxExamples}

\* target_seq.size(1)
Width(rows) == Len(rows[1])

\* loss.item(): the Python float of a scalar tensor
Item(x) == IF x.kind = "nan" THEN NaN ELSE [x EXCEPT !.kind = "float"]

\* x / n for a Python float x and a positive int n
RatDiv(x, n) == IF x.kind = "nan" THEN NaN ELSE Rat(x.num, x.den * n)

InitObjective == InitTrainOver(ObjectiveCorpora)

\* lines 858-876: objective(trial) entered, total_loss = 0
ObjectiveStart ==
    /\ objective_pc = "idle"
    /\ train_pc = "idle"
    /\ op' = "objective"
    /\ objective_pc' = "batches"
    /\ total_loss' = [kind |-> "int", num |-> 0, den |-> 1]
    /\ batch_index' = 0
    /\ log' = <<>>
    /\ UNCHANGED <<word_to_index, index_to_word, built, sentence, tokens, target, raised,
                   infer_vars, attention_vars, generator_vars, objective_return,
                   dataloader, num_epochs, train_pc, epoch, target_seq, target_lengths,
                   batch_max_target_length, t, teacher_input, loss, still_active,
                   example_loss, added, saved, train_raised, decoder_hidden>>

\* lines 877-887: the next batch up to the timestep loop
ObjectiveBatch ==
    LET rows == dataloader[batch_index + 1]
    IN /\ objective_pc = "batches"
       /\ batch_index < Len(dataloader)
       /\ batch_index' = batch_index + 1
       /\ target_seq' = rows
       /\ teacher_input' = [i \in 1..Len(rows) |-> word_to_index[START_OF_SEQUENCE]]
       /\ loss' = [kind |-> "int", num |-> 0, den |-> 1]
       /\ t' = 0
       /\ objective_pc' = IF Width(rows) = 0 THEN "backward" ELSE "timesteps"
       /\ log' = log \o BatchOpening(batch_index + 1)
       /\ decoder_hidden' = Len(log) + Len(BatchOpening(batch_index + 1))
       /\ example_loss' = <<>>
       /\ added' = [kind |-> "unbound", num |-> 0, den |-> 1]
       /\ UNCHANGED <<vocab_vars, infer_vars, attention_vars, generator_vars, total_loss,
                      objective_return, dataloader, num_epochs, train_pc, epoch,
                      target_lengths, batch_max_target_length, still_active, saved,
                      train_raised>>

\* lines 888-891: one pass of the loop over range(target_seq.size(1)), the
\* decoder's output giving example i the cross-entropy l[i] against
\* target_seq[i, t]
ObjectiveTimeStep(l) ==
    LET col == Column(target_seq, t)
        crit == criterion(l, col, word_to_index[PADDING_SEQUENCE])
    IN /\ objective_pc = "timesteps"
       /\ t < Width(target_seq)
       /\ log' = Append(log, DecoderCall(batch_index, t, decoder_hidden, teacher_input, col))
       /\ decoder_hidden' = Len(log) + 1
       /\ example_loss' = l
       /\ added' = crit
       /\ loss' = IF loss.kind = "int" THEN crit ELSE RatAdd(loss, crit)
       /\ teacher_input' = col
       /\ t' = t + 1
       /\ objective_pc' = IF t + 1 = Width(target_seq) THEN "backward" ELSE "timesteps"
       /\ UNCHANGED <<vocab_vars, infer_vars, attention_vars, generator_vars, total_loss,
                      objective_return, dataloader, num_epochs, train_pc, epoch,
                      batch_index, target_seq, target_lengths, batch_max_target_length,
                      still_active, saved, train_raised>>

\* lines 893-896: loss.backward(), the two optimizer steps and
\* total_loss += loss.item(); the int 0 has no backward()
ObjectiveBackward ==
    /\ objective_pc = "backward"
    /\ IF loss.kind = "int"
       THEN /\ objective_pc' = "raised"
            /\ train_raised' = "AttributeError"
            /\ UNCHANGED <<log, total_loss>>
       ELSE /\ objective_pc' = "batches"
            /\ log' = log \o BatchClosing(batch_index)
            /\ total_loss' = Item(RatAdd(total_loss, loss))
            /\ UNCHANGED train_raised
    /\ UNCHANGED <<vocab_vars, infer_vars, attention_vars, generator_vars, objective_return,
                   dataloader, num_epochs, train_pc, epoch, batch_index, target_seq,
                   target_lengths, batch_max_target_length, t, teacher_input, loss,
                   still_active, example_loss, added, saved, decoder_hidden>>

\* line 898: return total_loss / len(dataloader)
ObjectiveReturn ==
    /\ objective_pc = "batches"
    /\ batch_index = Len(dataloader)
    /\ IF Len(dataloader) = 0
       THEN /\ objective_pc' = "raised"
            /\ train_raised' = "ZeroDivisionError"
            /\ UNCHANGED objective_return
       ELSE /\ objective_pc' = "done"
            /\ objective_return' = Item(RatDiv(total_loss, Len(dataloader)))
            /\ UNCHANGED train_raised
    /\ UNCHANGED <<vocab_vars, infer_vars, attention_vars, generator_vars, total_loss,
                   dataloader, num_epochs, train_pc, epoch, batch_index, target_seq,
                   target_lengths, batch_max_target_length, t, teacher_input, loss,
                   still_active, example_loss, added, saved, decoder_hidden, log>>

NextObjective ==
    \/ ObjectiveStart
    \/ ObjectiveBatch
    \/ \E l \in [1..Len(target_seq) -> LossValues] : ObjectiveTimeStep(l)
    \/ ObjectiveBackward
    \/ ObjectiveReturn

SpecObjective == InitObjective /\ [][NextObjective]_vars

\* C21: in objective, every timestep at which the per-step loss is computed
\* has an example of the batch whose target token is not pad, so the step's
\* mean is a number, and the value objective returns is a number.
C21_ObjectiveLossWellDefined ==
    op = "objective" =>
        /\ (objective_pc \in {"timesteps", "backward"} /\ t > 0)
              => /\ \E i \in 1..Len(target_seq) :
                       target_seq[i][t] # word_to_index[PADDING_SEQUENCE]
                 /\ added.kind = "tensor"
        /\ objective_pc = "done" => objective_return.kind = "float"

\* ------------------------------------------------ Attention.forward, 117-140
\* most batch elements of a call
MaxBatch == 2
\* most positions of the encoder output
MaxSeqLen == 2
\* Lines 126-138 compute, from hidden and encoder_outputs alone, one finite
\* score per batch element and position (tanh bounds the energies); softmax
\* takes exp of it, a positive number. These stand for exp(score); the
\* weights are computed from them as exact fractions.
ExpValues == {1, 3}

\* softmax over the batch dimension
SoftmaxDim0(e) ==
    [b \in 1..Len(e) |->
       [l \in 1..Len(e[b]) |->
          Rat(e[b][l], SumOver([c \in 1..Len(e) |-> e[c][l]], 1..Len(e)))]]

\* torch.softmax(attention_weights, dim=1), line 140
Softmax(e) ==
    [b \in 1..Len(e) |->
       [l \in 1..Len(e[b]) |-> Rat(e[b][l], SumOver(e[b], 1..Len(e[b])))]]

\* the notebook before any of its data is loaded
InitNotebookIdle ==
    /\ InitInferIdle
    /\ InitTrainIdle
    /\ word_to_index = <<>>
    /\ index_to_word = <<>>
    /\ built = FALSE
    /\ op = "init"
    /\ sentence = <<>>
    /\ tokens = <<>>
    /\ target = <<>>
    /\ raised = "none"

InitAttention ==
    /\ InitNotebookIdle
    /\ InitGeneratorIdle
    /\ InitObjectiveIdle
    /\ \E B \in 1..MaxBatch, L \in 1..MaxSeqLen :
          /\ exp_scores \in [1..B -> [1..L -> ExpValues]]
          /\ pad_positions \in [1..B -> 0..L]
    /\ attention_weights = <<>>

\* forward(hidden, encoder_outputs)
AttentionForward ==
    /\ attention_weights = <<>>
    /\ attention_weights' = Softmax(exp_scores)
    /\ UNCHANGED <<vocab_vars, infer_vars, train_vars, exp_scores, pad_positions,
                   generator_vars, objective_vars>>

NextAttention == AttentionForward

SpecAttention == InitAttention /\ [][NextAttention]_vars

\* the sum of a row of fractions
RECURSIVE RatSum(_, _)
RatSum(row, n) ==
    IF n = 0 THEN Rat(0, 1) ELSE RatAdd(RatSum(row, n - 1), row[n])

\* C13: for an encoder output of L >= 1 positions Attention.forward returns,
\* per batch element, L weights, none negative, that sum to 1; for L = 1 the
\* weights are [1.0]; nothing is masked: a pad position gets a positive
\* weight, the one any position of its score gets.
C13_AttentionDistribution ==
    attention_weights # <<>>
        => /\ Len(attention_weights) = Len(exp_scores)
           /\ \A b \in 1..Len(exp_scores) :
                 LET w == attention_weights[b]
                     L == Len(exp_scores[b])
                 IN /\ Len(w) = L
                    /\ \A l \in 1..L : w[l].kind = "tensor" /\ w[l].num >= 0 /\ w[l].den > 0
                    /\ RatSum(w, L) = Rat(1, 1)
                    /\ L = 1 => w = <<Rat(1, 1)>>
                    /\ \A l \in 1..L :
                          l > L - pad_positions[b]
                             => /\ w[l].num > 0
                                /\ \A m \in 1..L :
                                      exp_scores[b][m] = exp_scores[b][l] => w[m] = w[l]

\* a batch of two came back, one row with a pad position of the largest weight
C13_Witness ==
    /\ Len(attention_weights) = 2
    /\ \E b \in 1..2 :
          /\ Len(attention_weights[b]) = 2
          /\ pad_positions[b] = 1
          /\ attention_weights[b][2] = Rat(3, 4)
          /\ attention_weights[b][1] = Rat(1, 4)

\* ------------- SimpleMathProblemsGenerator, simple-math-problems-generator.ipynb
\* the upper end of random.randint(1, 100), lines 62-63 and 67, scaled down
MaxNumber == 2
\* largest num_samples a generator is constructed with
MaxSamples == 2

\* A text is a sequence of words, with the blanks and hyphens between them as
\* elements of their own.
Ones ==
    <<"one", "two", "three", "four", "five", "six", "seven", "eight", "nine", "ten",
      "eleven", "twelve", "thirteen", "fourteen", "fifteen", "sixteen", "seventeen",
      "eighteen", "nineteen">>

Tens == <<"ten", "twenty", "thirty", "forty", "fifty", "sixty", "seventy", "eighty", "ninety">>

\* num2words of an integer from 0 to 99
Cardinal(n) ==
    IF n = 0 THEN <<"zero">>
    ELSE IF n < 20 THEN <<Ones[n]>>
    ELSE IF n % 10 = 0 THEN <<Tens[n \div 10]>>
    ELSE <<Tens[n \div 10], "-", Ones[n % 10]>>

\* num2words(r): r is an int, or a float held in hundredths and spelt digit by
\* digit after "point" as its repr has them (1.0, 0.5, 0.33)
Num2Words(r) ==
    IF r.kind = "int"
    THEN IF r.value < 0 THEN <<"minus", " ">> \o Cardinal(0 - r.value) ELSE Cardinal(r.value)
    ELSE LET f == r.value % 100
         IN Cardinal(r.value \div 100) \o <<" ", "point", " ">>
               \o (IF f % 10 = 0 THEN Cardinal(f \div 10)
                   ELSE Cardinal(f \div 10) \o <<" ">> \o Cardinal(f % 10))

NonEmpty(x) == x # ""

\* str.replace on the separators of a text; replacing by "" removes them
Replace(text, old, new) ==
    SelectSeq([i \in 1..Len(text) |-> IF text[i] = old THEN new ELSE text[i]], NonEmpty)

\* round(x / y, 2) for positive x and y, in hundredths, a tie going to the even digit
Round2(x, y) ==
    LET q == (100 * x) \div y
        r == (100 * x) % y
        h == IF 2 * r > y \/ (2 * r = y /\ q % 2 = 1) THEN q + 1 ELSE q
    IN [kind |-> "float", value |-> h]

\* the names of self.operations, lines 52-57
Operations == {"plus", "minus", "times", "divided by"}

\* the lambdas of self.operations, lines 53-56
Func(o, x, y) ==
    IF o = "plus" THEN [kind |-> "int", value |-> x + y]
    ELSE IF o = "minus" THEN [kind |-> "int", value |-> x - y]
    ELSE IF o = "times" THEN [kind |-> "int", value |-> x * y]
    ELSE IF y # 0 THEN Round2(x, y)
    ELSE [kind |-> "None", value |-> 0]

\* a range that starts one below a
RandIntFromBelow(a, b) == (a - 1)..b

\* the values random.randint(a, b) can return
RandInt(a, b) == a..b

\* a check that finds nothing
SeenNever(pair, S) == FALSE

\* a check that finds every pair
SeenAlways(pair, S) == TRUE

\* line 78: (question, answer) in self.existing_questions_and_answers
Seen(pair, S) == pair \in S

\* lines 70-73: the answer, the words of the result or "undefined"
ResultWord(res) ==
    IF res.kind # "None"
    THEN Replace(Replace(Num2Words(res), "-", " "), ",", "")
    ELSE <<"undefined">>

\* line 74: the question
Question(n1, o, n2) ==
    Replace(Num2Words([kind |-> "int", value |-> n1]) \o <<" ", o, " ">>
               \o Num2Words([kind |-> "int", value |-> n2]), "-", " ")

\* lines 69-76 for every num1, operation and num2 a pass can reach them with:
\* the result, the answer and the question
Problems ==
    [n1 \in RandInt(1, MaxNumber), o \in Operations, n2 \in RandInt(1, MaxNumber) |->
        [result |-> Func(o, n1, n2),
         answer |-> ResultWord(Func(o, n1, n2)),
         question |-> Question(n1, o, n2)]]

\* the (question, answer) pairs a pass of generate_problem can build
AllPairs ==
    {<<Problems[c].question, Problems[c].answer>> : c \in DOMAIN Problems}

\* a generator with num_samples set, idle, whose set of returned pairs is one of E
InitGeneratorAfter(E) ==
    /\ InitNotebookIdle
    /\ InitAttentionIdle
    /\ InitObjectiveIdle
    /\ num_samples \in 0..MaxSamples
    /\ existing_questions_and_answers \in E
    /\ gen_pc = "idle"
    /\ data = <<>>
    /\ num1 = 0
    /\ num2 = 0
    /\ drawn = 0
    /\ operation = "none"
    /\ func_result = [kind |-> "unbound", value |-> 0]
    /\ question = <<>>
    /\ answer = <<>>

\* lines 50-58: a generator as __init__ leaves it
InitGenerator == InitGeneratorAfter({{}})

\* lines 82-83: generate_dataset entered; range(0) ends it at once
GenerateDataset ==
    /\ gen_pc = "idle"
    /\ gen_pc' = IF num_samples = 0 THEN "done" ELSE "generating"
    /\ data' = <<>>
    /\ UNCHANGED <<vocab_vars, infer_vars, train_vars, attention_vars, objective_vars,
                   num_samples,
                   existing_questions_and_answers, num1, num2, drawn, operation,
                   func_result, question, answer>>

\* lines 61-80: one pass of the while loop of generate_problem, with n1 and d
\* the two numbers drawn, o the operation drawn and r the number line 67 draws
GenerateProblemPass(n1, d, o, r) ==
    LET n2 == IF o = "divided by" /\ d = 0 THEN r ELSE d
        res == Problems[n1, o, n2].result
        result_word == Problems[n1, o, n2].answer
        q == Problems[n1, o, n2].question
        pair == <<q, result_word>>
    IN /\ gen_pc = "generating"
       /\ num1' = n1
       /\ drawn' = d
       /\ num2' = n2
       /\ operation' = o
       /\ func_result' = res
       /\ question' = q
       /\ answer' = result_word
       /\ IF ~Seen(pair, existing_questions_and_answers)
          THEN /\ existing_questions_and_answers' = existing_questions_and_answers \cup {pair}
               /\ data' = Append(data, pair)
               /\ gen_pc' = IF Len(data) + 1 = num_samples THEN "done" ELSE "generating"
          ELSE UNCHANGED <<existing_questions_and_answers, data, gen_pc>>
       /\ UNCHANGED <<vocab_vars, infer_vars, train_vars, attention_vars, objective_vars,
                      num_samples>>

NextGenerator ==
    \/ GenerateDataset
    \/ \E n1 \in RandInt(1, MaxNumber), d \in RandInt(1, MaxNumber), o \in Operations :
          \E r \in (IF o = "divided by" /\ d = 0 THEN RandInt(1, MaxNumber) ELSE {d}) :
             GenerateProblemPass(n1, d, o, r)

SpecGenerator == InitGenerator /\ [][NextGenerator]_vars

\* C14: generate_problem never returns a (question, answer) pair twice: a
\* returned pair was not in existing_questions_and_answers before the call and
\* is in it afterwards, and the rows generate_dataset collects, num_samples of
\* them in the end, are pairwise distinct.
C14_NoPairTwice ==
    [][data' # data
         => /\ data' = Append(data, <<question', answer'>>)
            /\ <<question', answer'>> \notin existing_questions_and_answers
            /\ <<question', answer'>> \in existing_questions_and_answers'
            /\ \A i, j \in 1..Len(data') : i # j => data'[i] # data'[j]
            /\ Len(data') <= num_samples
            /\ gen_pc' = "done" <=> Len(data') = num_samples]_vars

\* a data set of two rows that share their answer
C14_Witness ==
    /\ gen_pc = "done"
    /\ Len(data) = 2
    /\ data[1][2] = data[2][2]
    /\ data[1][1] # data[2][1]

\* C15: when the operation is applied num1 and num2 are integers from 1 to
\* the upper end, the divisor is not 0, the result is not None and the answer
\* is not "undefined"; a divisor drawn as 0 would have been drawn again.
C15_NoDivisionByZero ==
    operation # "none"
        => /\ num1 \in 1..MaxNumber
           /\ num2 \in 1..MaxNumber
           /\ operation = "divided by" => num2 # 0
           /\ func_result.kind \in {"int", "float"}
           /\ answer # <<"undefined">>
           /\ (operation = "divided by" /\ drawn = 0) => num2 # drawn
           /\ \A i \in 1..Len(data) : data[i][2] # <<"undefined">>

\* one divided by two was answered zero point five
C15_Witness ==
    /\ operation = "divided by"
    /\ num1 = 1
    /\ num2 = 2
    /\ func_result = [kind |-> "float", value |-> 50]
    /\ answer = <<"zero", " ", "point", " ", "five">>
    /\ <<question, answer>> \in existing_questions_and_answers

\* ------------------------------------------- generate_dataset, termination
\* most combinations a generator used before has not returned yet
MaxUnused == 1

\* the subsets of S of at most k elements
RECURSIVE SmallSubsets(_, _)
SmallSubsets(S, k) ==
    IF k = 0 THEN {{}}
    ELSE LET P == SmallSubsets(S, k - 1)
         IN P \cup {p \cup {x} : p \in P, x \in S}

\* the pairs of one and one under each operation
OneAndOne == {<<Problems[1, o, 1].question, Problems[1, o, 1].answer>> : o \in Operations}

\* a generator whose earlier generate_problem calls returned every pair but a
\* few of those of one and one (line 79 only ever adds to the set)
InitGeneratorUsed ==
    InitGeneratorAfter({AllPairs \ U : U \in SmallSubsets(OneAndOne, MaxUnused)})

\* a pass of generate_problem that reaches the return of line 80
GenerateProblemReturns ==
    /\ \E n1 \in RandInt(1, MaxNumber), d \in RandInt(1, MaxNumber), o \in Operations :
          GenerateProblemPass(n1, d, o, d)
    /\ data' # data

\* fair sampling: a generate_problem that keeps drawing draws every
\* combination again and again, so a pass that can return is not put off for ever
SpecGeneratorFair ==
    InitGeneratorUsed /\ [][NextGenerator]_vars /\ WF_vars(GenerateProblemReturns)

\* the pairs this generator has not returned
Unused == AllPairs \ existing_questions_and_answers

\* the rows generate_dataset has still to collect
Remaining == num_samples - Len(data)

\* C22: the combinations give MaxNumber x MaxNumber x 4 different pairs.
\* Under fair sampling generate_problem keeps returning while a pair is
\* unused, and once none is unused it never returns again; so
\* generate_dataset ends with exactly num_samples rows when the rows still to
\* come are at most the unused pairs, and never ends when they are more.
C22_TerminatesIffUnused ==
    /\ [](Cardinality(AllPairs) = 4 * MaxNumber * MaxNumber)
    /\ (gen_pc = "generating") ~> (gen_pc = "done" \/ Unused = {})
    /\ [][(gen_pc = "generating" /\ Unused = {})
            => (gen_pc' = "generating" /\ data' = data /\ Unused' = {})]_vars
    /\ (gen_pc = "generating" /\ Remaining <= Cardinality(Unused))
          ~> (gen_pc = "done" /\ Len(data) = num_samples)
    /\ [][(gen_pc = "generating" /\ Remaining > Cardinality(Unused))
            => (gen_pc' = "generating" /\ Remaining' > Cardinality(Unused'))]_vars

\* generate_dataset ended on the last unused pair
C22_Witness ==
    /\ gen_pc = "done"
    /\ num_samples >= 1
    /\ Len(data) = num_samples
    /\ Unused = {}

====
